---------------------------- MODULE Spec2Model ----------------------------
(***************************************************************************)
(* Model of the repository tools of the Azure DevOps MCP server            *)
(* (tools/repositories.ts, registered by configureAllTools) and of the     *)
(* DomainsManager.  Invoke validates the arguments against the tool's      *)
(* schema, the handler then runs from one await to the next (connection,   *)
(* identity lookup, backend call) and ends either by returning a response  *)
(* or by throwing.  Spec runs one invocation at a time over every tool,    *)
(* SpecConcurrent interleaves invocations at their awaits, SpecDomains     *)
(* constructs a DomainsManager and calls its methods.                      *)
(*                                                                         *)
(* JavaScript strings on which the code works character by character are   *)
(* sequences of one-character strings; undefined is NULL.                  *)
(***************************************************************************)
EXTENDS Integers, Sequences, FiniteSets, TLC

VARIABLES
    pc,         \* where the invocation stands: idle, connect, lookupUser, lookupMe, fetch, done
    tool,       \* the tool called
    args,       \* its arguments (as parsed, once the schema has accepted them)
    calls,      \* the outbound calls of this invocation, in the order issued
    criteria,   \* the search criteria of the pull request listings
    fetched,    \* the collection as the backend returned it
    source,     \* that same array object as the handler leaves it
    paginated,  \* the handler's paginated collection (sorted and sliced)
    response,   \* what the invocation ends with
    suspended,  \* the other invocations in flight, each waiting at an await
    domainsInput,    \* what the DomainsManager was constructed with
    enabledDomains,  \* its private set of enabled domains
    answer      \* what the last call of a DomainsManager method returned

\* The variables of one handler invocation: its parameters and locals.
locals == <<pc, tool, args, calls, criteria, fetched, source, paginated, response>>

\* What no handler touches: the other invocations and the DomainsManager.
outside == <<suspended, domainsInput, enabledDomains, answer>>

vars == <<pc, tool, args, calls, criteria, fetched, source, paginated, response,
          suspended, domainsInput, enabledDomains, answer>>

\* undefined, for values the model keeps as atoms (tool names, user ids, texts)
NULL == "undefined"

\* An optional number or character string: None is undefined, Some(v) is v.
None == <<>>
Some(v) == <<v>>
the(o) == o[1]

(***************************************************************************)
(* Bounds of the model.                                                    *)
(***************************************************************************)
MaxPage == 2
MaxRepos == 2
MaxRefs == 3
MaxThreads == 2
MaxComments == 2
\* invocations in flight besides the running one
MaxSuspended == 1

\* skip and top are z.number(): negative values pass the schema.
PageVals == (0 - 1) .. MaxPage

SeqsUpTo(S, n) == UNION {[1..k -> S] : k \in 0..n}

Min(a, b) == IF a < b THEN a ELSE b
Max(a, b) == IF a > b THEN a ELSE b

(***************************************************************************)
(* JavaScript string and array primitives used by the handlers.            *)
(***************************************************************************)
startsWith(s, p) == Len(s) >= Len(p) /\ SubSeq(s, 1, Len(p)) = p

\* 1-based position of the first occurrence of p in s, 0 when there is none.
indexOf(s, p) ==
    LET hits == {i \in 1..(Len(s) + 1) :
                    i + Len(p) - 1 <= Len(s) /\ SubSeq(s, i, i + Len(p) - 1) = p}
    IN IF hits = {} THEN 0 ELSE CHOOSE i \in hits : \A j \in hits : i <= j

includes(s, p) == indexOf(s, p) # 0

\* String.prototype.replace with a string pattern: the first occurrence only.
replace(s, p, r) ==
    LET i == indexOf(s, p)
    IN IF i = 0 THEN s
       ELSE SubSeq(s, 1, i - 1) \o r \o SubSeq(s, i + Len(p), Len(s))

Lower == <<"a", "b", "c", "d", "e", "f", "g", "h", "i", "j", "k", "l", "m",
           "n", "o", "p", "q", "r", "s", "t", "u", "v", "w", "x", "y", "z">>
Upper == <<"A", "B", "C", "D", "E", "F", "G", "H", "I", "J", "K", "L", "M",
           "N", "O", "P", "Q", "R", "S", "T", "U", "V", "W", "X", "Y", "Z">>

IndexIn(seq, c) == IF \E i \in 1..Len(seq) : seq[i] = c
                   THEN CHOOSE i \in 1..Len(seq) : seq[i] = c
                   ELSE 0

charToLower(c) == IF IndexIn(Upper, c) # 0 THEN Lower[IndexIn(Upper, c)] ELSE c
charToUpper(c) == IF IndexIn(Lower, c) # 0 THEN Upper[IndexIn(Lower, c)] ELSE c

toLowerCase(s) == [i \in 1..Len(s) |-> charToLower(s[i])]
toUpperCase(s) == [i \in 1..Len(s) |-> charToUpper(s[i])]

\* s.charAt(0) and s.slice(1)
charAt0(s) == IF Len(s) = 0 THEN <<>> ELSE <<s[1]>>
sliceFrom1(s) == IF Len(s) <= 1 THEN <<>> ELSE SubSeq(s, 2, Len(s))

\* Collation of the characters the model uses (ICU root collation, which
\* localeCompare applies): punctuation before letters, letters in alphabetical
\* order whatever their case, and at equal letters lower case before upper case.
Primary(c) == IF IndexIn(Lower, c) # 0 THEN IndexIn(Lower, c)
              ELSE IF IndexIn(Upper, c) # 0 THEN IndexIn(Upper, c)
              ELSE 0
Tertiary(c) == IF IndexIn(Upper, c) # 0 THEN 1 ELSE 0

RECURSIVE LexCompare(_, _, _)
LexCompare(a, b, level) ==
    IF Len(a) = 0 /\ Len(b) = 0 THEN 0
    ELSE IF Len(a) = 0 THEN 0 - 1
    ELSE IF Len(b) = 0 THEN 1
    ELSE LET x == IF level = 1 THEN Primary(Head(a)) ELSE Tertiary(Head(a))
             y == IF level = 1 THEN Primary(Head(b)) ELSE Tertiary(Head(b))
         IN IF x < y THEN 0 - 1
            ELSE IF x > y THEN 1
            ELSE LexCompare(Tail(a), Tail(b), level)

\* a.localeCompare(b): negative, zero or positive.
localeCompare(a, b) ==
    IF LexCompare(a, b, 1) # 0 THEN LexCompare(a, b, 1) ELSE LexCompare(a, b, 2)

\* Array.prototype.slice(start, end): negative indices count from the end.
ArraySlice(a, start, end) ==
    LET n == Len(a)
        from == IF start < 0 THEN Max(n + start, 0) ELSE Min(start, n)
        to == IF end < 0 THEN Max(n + end, 0) ELSE Min(end, n)
    IN IF from < to THEN SubSeq(a, from + 1, to) ELSE <<>>


Reverse(s) == [i \in 1..Len(s) |-> s[Len(s) + 1 - i]]

(***************************************************************************)
(* The comparators the handlers pass to Array.prototype.sort.              *)
(***************************************************************************)
\* (a, b) => a.name?.localeCompare(b.name ?? "") ?? 0
repoCompare(a, b) ==
    IF a.name = None THEN 0
    ELSE localeCompare(the(a.name), IF b.name = None THEN <<>> ELSE the(b.name))

\* Mutant of branchCompare: ascending order, (a, b) => a.localeCompare(b).
branchCompareAscending(a, b) == localeCompare(a, b)

\* (a, b) => b.localeCompare(a)
branchCompare(a, b) == localeCompare(b, a)

\* (a, b) => (a.id ?? 0) - (b.id ?? 0)
idCompare(a, b) ==
    (IF a.id = None THEN 0 ELSE the(a.id)) - (IF b.id = None THEN 0 ELSE the(b.id))

Compare(kind, a, b) ==
    CASE kind = "repo" -> repoCompare(a, b)
      [] kind = "branch" -> branchCompare(a, b)
      [] OTHER -> idCompare(a, b)

(***************************************************************************)
(* Array.prototype.sort as Node's engine runs it on an array shorter than  *)
(* 64 elements: the leading run is found (and reversed when strictly       *)
(* descending), the rest is inserted by binary insertion.  Indices are     *)
(* 0-based as in the engine; a[i + 1] is its element i.                    *)
(***************************************************************************)
RECURSIVE CountRun(_, _, _, _)
CountRun(a, kind, isDescending, idx) ==
    IF idx >= Len(a) THEN idx
    ELSE LET order == Compare(kind, a[idx + 1], a[idx])
         IN IF (isDescending /\ order >= 0) \/ (~isDescending /\ order < 0)
            THEN idx
            ELSE CountRun(a, kind, isDescending, idx + 1)

CountAndMakeRun(a, kind) ==
    LET isDescending == Compare(kind, a[2], a[1]) < 0
        runLength == CountRun(a, kind, isDescending, 2)
    IN [runLength |-> runLength,
        array |-> IF isDescending
                  THEN Reverse(SubSeq(a, 1, runLength)) \o SubSeq(a, runLength + 1, Len(a))
                  ELSE a]

RECURSIVE BinarySearch(_, _, _, _, _)
BinarySearch(a, kind, pivot, left, right) ==
    IF left >= right THEN left
    ELSE LET mid == left + ((right - left) \div 2)
         IN IF Compare(kind, pivot, a[mid + 1]) < 0
            THEN BinarySearch(a, kind, pivot, left, mid)
            ELSE BinarySearch(a, kind, pivot, mid + 1, right)

RECURSIVE BinaryInsertionSort(_, _, _)
BinaryInsertionSort(a, kind, start) ==
    IF start >= Len(a) THEN a
    ELSE LET pivot == a[start + 1]
             left == BinarySearch(a, kind, pivot, 0, start)
             moved == SubSeq(a, 1, left) \o <<pivot>> \o SubSeq(a, left + 1, start)
                        \o SubSeq(a, start + 2, Len(a))
         IN BinaryInsertionSort(moved, kind, start + 1)

ArraySort(a, kind) ==
    IF Len(a) < 2 THEN a
    ELSE LET run == CountAndMakeRun(a, kind)
         IN BinaryInsertionSort(run.array, kind, run.runLength)

(***************************************************************************)
(* Backend entities.  Only the fields the handlers read are kept, with one *)
(* field per entity that the trimmed projection drops.                     *)
(***************************************************************************)
RepoIds == {<<"1">>, <<"2">>}
RepoNames == {<<"a">>, <<"B">>}
GitRepository == [id : RepoIds, name : {None} \cup {Some(n) : n \in RepoNames},
                  project : {"P"}]

refsHeads == <<"r", "e", "f", "s", "/", "h", "e", "a", "d", "s", "/">>
refsTags == <<"r", "e", "f", "s", "/", "t", "a", "g", "s", "/">>
main == <<"m", "a", "i", "n">>
dev == <<"d", "e", "v">>
beta == <<"b", "e", "t", "a">>

\* A branch may itself be called refs/heads/x: its ref is refs/heads/refs/heads/x.
RefNames == {refsHeads \o main, refsHeads \o dev, refsHeads \o beta,
             refsTags \o <<"v">>, refsHeads \o refsHeads \o <<"x">>}
GitRef == [name : {None} \cup {Some(n) : n \in RefNames}]

\* A deleted comment is told from a live one by its content, so that its
\* appearance in a trimmed payload (which drops isDeleted) can be observed.
CommentIds == {None, Some(1), Some(2)}
Comment == {[id |-> i, isDeleted |-> d,
             content |-> IF d THEN "deleted text" ELSE "text"] :
              i \in CommentIds, d \in BOOLEAN}

ThreadIds == {None, Some(1), Some(2)}
ThreadCommentLists ==
    {<<>>,
     <<[id |-> Some(1), isDeleted |-> FALSE, content |-> "text"]>>,
     <<[id |-> Some(1), isDeleted |-> TRUE, content |-> "deleted text"],
       [id |-> Some(2), isDeleted |-> FALSE, content |-> "text"]>>}
CommentThread == [id : ThreadIds, status : {"active"}, comments : ThreadCommentLists]

PullRequest == [pullRequestId : {1, 2}, url : {"u"}]
PullRequestLists == {<<>>} \cup {<<p>> : p \in PullRequest}

UserIds == {"id-a", "id-b"}
ErrorMessages == {"backend unavailable"}

(***************************************************************************)
(* Helpers of repositories.ts.                                             *)
(***************************************************************************)

RECURSIVE FlatMapNames(_)
FlatMapNames(branches) ==
    IF branches = <<>> THEN <<>>
    ELSE (IF Head(branches).name # None THEN <<the(Head(branches).name)>> ELSE <<>>)
           \o FlatMapNames(Tail(branches))

IsHead(branch) == startsWith(branch, refsHeads)
StripHead(branch) == replace(branch, refsHeads, <<>>)

\* .map((branch) => branch.replace("refs/heads/", ""))
StripHeads(heads) == [i \in 1..Len(heads) |-> StripHead(heads[i])]

branchesFilterOutIrrelevantProperties(branches, top) ==
    ArraySlice(ArraySort(StripHeads(SelectSeq(FlatMapNames(branches), IsHead)),
                         "branch"),
               0, top)

NotDeleted(comment) == ~comment.isDeleted
TrimComment(comment) == [id |-> comment.id, content |-> comment.content]

\* .map((comment) => ({ id, content, ... }))
TrimComments(kept) == [i \in 1..Len(kept) |-> TrimComment(kept[i])]

trimComments(comments) == TrimComments(SelectSeq(comments, NotDeleted))

\* PullRequestStatus of azure-devops-node-api
PullRequestStatus ==
    [k \in {"NotSet", "Active", "Abandoned", "Completed", "All"} |->
        CASE k = "NotSet" -> 0 [] k = "Active" -> 1 [] k = "Abandoned" -> 2
          [] k = "Completed" -> 3 [] OTHER -> 4]

\* Some(number), or None when the switch reaches its default and throws.
pullRequestStatusStringToInt(status) ==
    CASE status = "Abandoned" -> Some(PullRequestStatus["Abandoned"])
      [] status = "Active" -> Some(PullRequestStatus["Active"])
      [] status = "All" -> Some(PullRequestStatus["All"])
      [] status = "Completed" -> Some(PullRequestStatus["Completed"])
      [] status = "NotSet" -> Some(PullRequestStatus["NotSet"])
      [] OTHER -> None

NameContains(repo, lowerCaseFilter) ==
    repo.name # None /\ includes(toLowerCase(the(repo.name)), lowerCaseFilter)

filterReposByName(repositories, repoNameFilter) ==
    LET lowerCaseFilter == toLowerCase(repoNameFilter)
        Keep(repo) == NameContains(repo, lowerCaseFilter)
    IN SelectSeq(repositories, Keep)

(***************************************************************************)
(* Thread status of create_pull_request_comment.                           *)
(***************************************************************************)
active == <<"a", "c", "t", "i", "v", "e">>
byDesign == <<"b", "y", "D", "e", "s", "i", "g", "n">>
closed == <<"c", "l", "o", "s", "e", "d">>
fixed == <<"f", "i", "x", "e", "d">>
pending == <<"p", "e", "n", "d", "i", "n", "g">>
unknown == <<"u", "n", "k", "n", "o", "w", "n">>
wontFix == <<"w", "o", "n", "t", "F", "i", "x">>

\* z.enum([...]) of the status parameter
ThreadStatusInputs == {active, byDesign, closed, fixed, pending, unknown, wontFix}

\* CommentThreadStatus of azure-devops-node-api
CommentThreadStatus ==
    [k \in {<<"U", "n", "k", "n", "o", "w", "n">>, <<"A", "c", "t", "i", "v", "e">>,
            <<"F", "i", "x", "e", "d">>, <<"W", "o", "n", "t", "F", "i", "x">>,
            <<"C", "l", "o", "s", "e", "d">>,
            <<"B", "y", "D", "e", "s", "i", "g", "n">>,
            <<"P", "e", "n", "d", "i", "n", "g">>} |->
        CASE k = <<"U", "n", "k", "n", "o", "w", "n">> -> 0
          [] k = <<"A", "c", "t", "i", "v", "e">> -> 1
          [] k = <<"F", "i", "x", "e", "d">> -> 2
          [] k = <<"W", "o", "n", "t", "F", "i", "x">> -> 3
          [] k = <<"C", "l", "o", "s", "e", "d">> -> 4
          [] k = <<"B", "y", "D", "e", "s", "i", "g", "n">> -> 5
          [] OTHER -> 6]

\* Mutant of ThreadStatusKey: the two special cases without the general rule.
ThreadStatusKeyUncapitalised(status) ==
    IF status = byDesign THEN <<"B", "y", "D", "e", "s", "i", "g", "n">>
    ELSE IF status = wontFix THEN <<"W", "o", "n", "t", "F", "i", "x">>
    ELSE status

\* The key the handler indexes CommentThreadStatus with.
ThreadStatusKey(status) ==
    IF status = byDesign THEN <<"B", "y", "D", "e", "s", "i", "g", "n">>
    ELSE IF status = wontFix THEN <<"W", "o", "n", "t", "F", "i", "x">>
    ELSE toUpperCase(charAt0(status)) \o sliceFrom1(status)

\* CommentThreadStatus[key]: undefined when key names no member.
ThreadStatusValue(status) ==
    LET key == ThreadStatusKey(status)
    IN IF key \in DOMAIN CommentThreadStatus THEN Some(CommentThreadStatus[key])
       ELSE None

\* JavaScript truthiness of an optional number and of an atomic string.
TruthyNumber(o) == o # None /\ the(o) # 0
TruthyText(x) == x # NULL /\ x # ""

\* Mutant of ThreadContext: the positions set on the left side as well.
ThreadContextBothSides(filePath, lineStart, lineEnd) ==
    IF TruthyText(filePath) /\ TruthyNumber(lineStart)
    THEN Some([filePath |-> filePath,
               leftFileStart |-> [line |-> the(lineStart), offset |-> 1],
               leftFileEnd |-> [line |-> IF TruthyNumber(lineEnd) THEN the(lineEnd)
                                         ELSE the(lineStart),
                                offset |-> 1],
               rightFileStart |-> [line |-> the(lineStart), offset |-> 1],
               rightFileEnd |-> [line |-> IF TruthyNumber(lineEnd) THEN the(lineEnd)
                                          ELSE the(lineStart),
                                 offset |-> 1]])
    ELSE None

\* if (filePath && lineStart) { threadData.threadContext = ... }
ThreadContext(filePath, lineStart, lineEnd) ==
    IF TruthyText(filePath) /\ TruthyNumber(lineStart)
    THEN Some([filePath |-> filePath,
               rightFileStart |-> [line |-> the(lineStart), offset |-> 1],
               rightFileEnd |-> [line |-> IF TruthyNumber(lineEnd) THEN the(lineEnd)
                                          ELSE the(lineStart),
                                 offset |-> 1]])
    ELSE None

ThreadData(a) ==
    [comments |-> <<[content |-> a.content]>>,
     status |-> ThreadStatusValue(a.status),
     threadContext |-> ThreadContext(a.filePath, a.lineStart, a.lineEnd)]

(***************************************************************************)
(* Tools, their parameters and their schemas.                              *)
(***************************************************************************)
REPO_TOOLS ==
    {"list_repos_by_project", "list_pull_requests_by_repo",
     "list_pull_requests_by_project", "list_branches_by_repo",
     "list_my_branches_by_repo", "list_pull_request_threads",
     "list_pull_request_thread_comments", "get_repo_by_name_or_id",
     "get_branch_by_name", "get_pull_request_by_id", "search_commits",
     "list_pull_requests_by_commits", "create_pull_request_comment"}

PullRequestListTools == {"list_pull_requests_by_repo", "list_pull_requests_by_project"}
BranchListTools == {"list_branches_by_repo", "list_my_branches_by_repo"}
\* The handlers whose body is wrapped in try/catch.
GuardedTools == {"search_commits", "list_pull_requests_by_commits",
                 "create_pull_request_comment"}

\* The keys of a TypeScript enum (utils.ts).
getEnumKeys(enum) == DOMAIN enum

\* status: NULL is an omitted parameter
StatusInputs == {NULL, "Merged"} \cup DOMAIN PullRequestStatus

\* The arguments a caller may send; every field other than the pull request
\* status has the type its schema declares.
ToolArgs(t) ==
    CASE t = "list_repos_by_project" ->
            [top : PageVals, skip : PageVals,
             repoNameFilter : {None, Some(<<>>), Some(<<"b">>)}]
      [] t \in PullRequestListTools ->
            [created_by_me : BOOLEAN, created_by_user : {NULL, "", "a@x.com"},
             i_am_reviewer : BOOLEAN, status : StatusInputs]
      [] t \in {"list_pull_request_threads", "list_pull_request_thread_comments"} ->
            [top : PageVals, skip : PageVals, fullResponse : BOOLEAN]
      [] t \in BranchListTools -> [top : PageVals]
      [] t = "get_repo_by_name_or_id" ->
            [repositoryNameOrId : {<<"a">>, <<"1">>, <<"z">>}]
      [] t = "get_branch_by_name" -> [branchName : {main, refsHeads \o dev, <<"x">>}]
      [] t = "get_pull_request_by_id" -> [pullRequestId : {1, 2}]
      [] t = "search_commits" -> [version : {NULL, "", "main"}, versionType : {"Branch", "Tag"}]
      [] t = "list_pull_requests_by_commits" -> [queryType : {"LastMergeCommit", "Commit"}]
      [] OTHER ->
            [content : {"hello"}, threadId : {None, Some(0), Some(7)},
             status : ThreadStatusInputs \cup {None},
             filePath : {NULL, "", "a.ts"},
             lineStart : {None, Some(0), Some(10)},
             lineEnd : {None, Some(0), Some(12)}]

\* Mutant of StatusSchema: the parameter declared as z.string().default("Active").
StatusSchemaAnyString(value) == TRUE

\* status: z.enum(getEnumKeys(PullRequestStatus)).default("Active")
StatusSchema(value) == value = NULL \/ value \in getEnumKeys(PullRequestStatus)

SchemaAccepts(t, a) == t \in PullRequestListTools => StatusSchema(a.status)

\* The parsed arguments the handler receives: defaults fill omitted parameters.
Parse(t, a) ==
    IF t \in PullRequestListTools /\ a.status = NULL THEN [a EXCEPT !.status = "Active"]
    ELSE IF t = "create_pull_request_comment" /\ a.status = None
         THEN [a EXCEPT !.status = active]
    ELSE a

(***************************************************************************)
(* Responses.  text is the value the handler serialises with               *)
(* JSON.stringify, or the parts of its error message.                      *)
(***************************************************************************)
NoResponse == [outcome |-> "none", isError |-> FALSE, text |-> <<>>]
\* return { content: [{ type: "text", text: JSON.stringify(payload) }] }
Returned(payload) == [outcome |-> "returned", isError |-> FALSE, text |-> payload]
\* return { content: [...], isError: true }
ErrorResponse(parts) == [outcome |-> "returned", isError |-> TRUE, text |-> parts]
\* the handler's promise rejects: the error leaves the handler
Thrown(message) == [outcome |-> "thrown", isError |-> FALSE, text |-> <<message>>]
\* the arguments fail the schema: the handler is never called
Rejected(field, value) ==
    [outcome |-> "rejected", isError |-> TRUE,
     text |-> <<"invalid_enum_value", field, value>>]

\* What an error raised inside the handler body becomes.
OnError(t, message) ==
    CASE t = "search_commits" -> ErrorResponse(<<"Error searching commits: ", message>>)
      [] t = "list_pull_requests_by_commits" ->
            ErrorResponse(<<"Error querying pull requests by commits: ", message>>)
      [] t = "create_pull_request_comment" ->
            ErrorResponse(<<"Error creating comment: ", message>>)
      [] OTHER -> Thrown(message)

NoCriteria == [status |-> None, creatorId |-> NULL, reviewerId |-> NULL]

Call(name, arg, result) == [name |-> name, arg |-> arg, result |-> result]

(***************************************************************************)
(* DomainsManager (shared/domains.ts).                                     *)
(***************************************************************************)
REPOSITORIES == <<"r", "e", "p", "o", "s", "i", "t", "o", "r", "i", "e", "s">>
builds == <<"b", "u", "i", "l", "d", "s">>
wiki == <<"w", "i", "k", "i">>

\* export enum Domain { REPOSITORIES = "repositories" }
Domain == [REPOSITORIES |-> REPOSITORIES]

\* export const ALL_DOMAINS = "all"
ALL_DOMAINS == <<"a", "l", "l">>

\* domainsInput?: string | string[].  value holds the strings of the input:
\* none, the one string, or the elements of the array.
Undefined == [kind |-> "undefined", value |-> <<>>]
String(s) == [kind |-> "string", value |-> <<s>>]
Array(a) == [kind |-> "array", value |-> a]

StringInputs ==
    {<<>>, ALL_DOMAINS, REPOSITORIES, builds,
     REPOSITORIES \o <<",">> \o builds,
     <<" ", "R", "e", "p", "o", "s", " ", ",", ",", "W", "i", "k", "i", " ">>}

ArrayInputs ==
    {<<>>, <<REPOSITORIES>>, <<REPOSITORIES, builds>>,
     <<<<" ", "A", "L", "L">>, <<>>, <<"W", "i", "k", "i", " ">>>>}

DomainsInputs ==
    {Undefined} \cup {String(s) : s \in StringInputs} \cup {Array(a) : a \in ArrayInputs}

\* The names isDomainEnabled is asked about.
DomainNames ==
    {REPOSITORIES, builds, wiki, ALL_DOMAINS, <<>>, <<"c", "o", "r", "e">>,
     <<"R", "e", "p", "o", "s", "i", "t", "o", "r", "i", "e", "s">>}

\* Mutant of DomainsManager: the domains named by an array input are enabled.
DomainsManagerFromInput(input) ==
    IF input.kind = "array" /\ input.value # <<>>
    THEN {input.value[i] : i \in DOMAIN input.value}
    ELSE {Domain.REPOSITORIES}

\* constructor(domainsInput): this.enabledDomains = new Set([Domain.REPOSITORIES])
DomainsManager(input) == {Domain.REPOSITORIES}

Whitespace == {" ", "\t", "\n"}

\* String.prototype.trim
RECURSIVE trimStart(_)
trimStart(s) ==
    IF s # <<>> /\ Head(s) \in Whitespace THEN trimStart(Tail(s)) ELSE s

trim(s) == Reverse(trimStart(Reverse(trimStart(s))))

\* String.prototype.split(","): the pieces between the commas, in order.
RECURSIVE split(_, _)
split(s, separator) ==
    IF indexOf(s, separator) = 0 THEN <<s>>
    ELSE <<SubSeq(s, 1, indexOf(s, separator) - 1)>>
         \o split(SubSeq(s, indexOf(s, separator) + Len(separator), Len(s)), separator)

\* Mutant of TrimLowerAll: the entries lower-cased but not trimmed.
LowerAll(list) == [i \in 1..Len(list) |-> toLowerCase(list[i])]

\* .map((d) => d.trim().toLowerCase())
TrimLowerAll(list) == [i \in 1..Len(list) |-> toLowerCase(trim(list[i]))]

\* static parseDomainsInput(domainsInput)
parseDomainsInput(input) ==
    IF input.kind = "undefined" \/ (input.kind = "string" /\ input.value[1] = <<>>)
    THEN <<>>
    ELSE IF input.kind = "string" THEN TrimLowerAll(split(input.value[1], <<",">>))
    ELSE TrimLowerAll(input.value)

NoAnswer == [method |-> "none", arg |-> <<>>, value |-> <<>>]
Answer(method, arg, value) == [method |-> method, arg |-> arg, value |-> value]

\* No invocation is running.
NoInvocation ==
    /\ pc = "idle"
    /\ tool = NULL
    /\ args = <<>>
    /\ calls = <<>>
    /\ criteria = NoCriteria
    /\ fetched = <<>>
    /\ source = <<>>
    /\ paginated = <<>>
    /\ response = NoResponse

\* The server has registered its tools; its DomainsManager was constructed
\* without input.
Init ==
    /\ NoInvocation
    /\ suspended = <<>>
    /\ domainsInput = Undefined
    /\ enabledDomains = DomainsManager(Undefined)
    /\ answer = NoAnswer

\* The server receives a tools/call request: the arguments are parsed against
\* the tool's schema before the handler is called.
Invoke(t, a) ==
    /\ pc = "idle"
    /\ tool' = t
    /\ IF SchemaAccepts(t, a)
       THEN /\ args' = Parse(t, a)
            /\ pc' = "connect"
            /\ response' = response
       ELSE /\ args' = a
            /\ pc' = "done"
            /\ response' = Rejected("status", a.status)
    /\ UNCHANGED <<calls, criteria, fetched, source, paginated>>
    /\ UNCHANGED outside

\* Mutant of FirstLookup: the two branches in the other order.
FirstLookupMeFirst(a) ==
    IF a.created_by_me \/ a.i_am_reviewer THEN "lookupMe"
    ELSE IF TruthyText(a.created_by_user) THEN "lookupUser"
    ELSE "fetch"

\* Mutant of FirstLookup: the fetch is issued without awaiting any lookup.
FirstLookupNotAwaited(a) == "fetch"

\* if (created_by_user) { ... } else if (created_by_me || i_am_reviewer) { ... }
FirstLookup(a) ==
    IF TruthyText(a.created_by_user) THEN "lookupUser"
    ELSE IF a.created_by_me \/ a.i_am_reviewer THEN "lookupMe"
    ELSE "fetch"

\* After the connection: the listing handlers build their search criteria and
\* decide which identity lookup, if any, comes first.
AfterConnect ==
    IF tool \in PullRequestListTools
    THEN IF pullRequestStatusStringToInt(args.status) = None
         THEN /\ pc' = "done"
              /\ response' = Thrown("Unknown pull request status")
              /\ criteria' = criteria
         ELSE /\ criteria' = [criteria EXCEPT
                                !.status = pullRequestStatusStringToInt(args.status)]
              /\ pc' = FirstLookup(args)
              /\ response' = response
    ELSE /\ pc' = "fetch"
         /\ UNCHANGED <<criteria, response>>

\* const connection = await connectionProvider();
\* const gitApi = await connection.getGitApi();
Connect ==
    /\ pc = "connect"
    /\ calls' = calls \o <<Call("connectionProvider", NULL, "ok"),
                           Call("getGitApi", NULL, "ok")>>
    /\ AfterConnect
    /\ UNCHANGED <<tool, args, fetched, source, paginated>>
    /\ UNCHANGED outside

ConnectFails ==
    /\ pc = "connect"
    /\ \E message \in ErrorMessages :
          /\ calls' = Append(calls, Call("connectionProvider", NULL, "error"))
          /\ response' = OnError(tool, message)
    /\ pc' = "done"
    /\ UNCHANGED <<tool, args, criteria, fetched, source, paginated>>
    /\ UNCHANGED outside

\* getUserIdFromEmail (auth.ts): resolves to the id of the identity matching
\* the identifier, rejects when no identity matches or the lookup fails.
getUserIdFromEmail(email) == [resolves |-> UserIds, rejects |-> ErrorMessages]

\* Mutant of LookupUser: the flags handled in an `if` of their own, after the
\* lookup of created_by_user.
LookupUserThenMe ==
    /\ pc = "lookupUser"
    /\ \/ \E userId \in getUserIdFromEmail(args.created_by_user).resolves :
             /\ calls' = Append(calls,
                                Call("getUserIdFromEmail", args.created_by_user, userId))
             /\ criteria' = [criteria EXCEPT !.creatorId = userId]
             /\ pc' = IF args.created_by_me \/ args.i_am_reviewer THEN "lookupMe"
                      ELSE "fetch"
             /\ response' = response
       \/ \E message \in getUserIdFromEmail(args.created_by_user).rejects :
             /\ calls' = Append(calls,
                                Call("getUserIdFromEmail", args.created_by_user, "error"))
             /\ response' = ErrorResponse(<<"Error finding user with email ",
                                            args.created_by_user, ": ", message>>)
             /\ pc' = "done"
             /\ criteria' = criteria
    /\ UNCHANGED <<tool, args, fetched, source, paginated>>
    /\ UNCHANGED outside

\* Mutant of LookupUser: the lookup awaited outside any try/catch.
LookupUserUnguarded ==
    /\ pc = "lookupUser"
    /\ \/ \E userId \in getUserIdFromEmail(args.created_by_user).resolves :
             /\ calls' = Append(calls,
                                Call("getUserIdFromEmail", args.created_by_user, userId))
             /\ criteria' = [criteria EXCEPT !.creatorId = userId]
             /\ pc' = "fetch"
             /\ response' = response
       \/ \E message \in getUserIdFromEmail(args.created_by_user).rejects :
             /\ calls' = Append(calls,
                                Call("getUserIdFromEmail", args.created_by_user, "error"))
             /\ response' = Thrown(message)
             /\ pc' = "done"
             /\ criteria' = criteria
    /\ UNCHANGED <<tool, args, fetched, source, paginated>>
    /\ UNCHANGED outside

\* const userId = await getUserIdFromEmail(created_by_user, ...), inside try/catch
LookupUser ==
    /\ pc = "lookupUser"
    /\ \/ \E userId \in getUserIdFromEmail(args.created_by_user).resolves :
             /\ calls' = Append(calls,
                                Call("getUserIdFromEmail", args.created_by_user, userId))
             /\ criteria' = [criteria EXCEPT !.creatorId = userId]
             /\ pc' = "fetch"
             /\ response' = response
       \/ \E message \in getUserIdFromEmail(args.created_by_user).rejects :
             /\ calls' = Append(calls,
                                Call("getUserIdFromEmail", args.created_by_user, "error"))
             /\ response' = ErrorResponse(<<"Error finding user with email ",
                                            args.created_by_user, ": ", message>>)
             /\ pc' = "done"
             /\ criteria' = criteria
    /\ UNCHANGED <<tool, args, fetched, source, paginated>>
    /\ UNCHANGED outside

\* const data = await getCurrentUserDetails(...), outside any try/catch
LookupMe ==
    /\ pc = "lookupMe"
    /\ \/ \E userId \in UserIds :
             /\ calls' = Append(calls, Call("getCurrentUserDetails", NULL, userId))
             /\ criteria' =
                  [criteria EXCEPT
                     !.creatorId = IF args.created_by_me THEN userId ELSE @,
                     !.reviewerId = IF args.i_am_reviewer THEN userId ELSE @]
             /\ pc' = "fetch"
             /\ response' = response
       \/ \E message \in ErrorMessages :
             /\ calls' = Append(calls, Call("getCurrentUserDetails", NULL, "error"))
             /\ response' = Thrown(message)
             /\ pc' = "done"
             /\ criteria' = criteria
    /\ UNCHANGED <<tool, args, fetched, source, paginated>>
    /\ UNCHANGED outside

(***************************************************************************)
(* The handlers from their backend call to their response.                 *)
(***************************************************************************)
\* Mutant of Paginate: the offset taken as 1-based.
PaginateOffByOne(collection, kind, skip, top) ==
    ArraySlice(ArraySort(collection, kind), skip + 1, skip + 1 + top)

\* collection?.sort(compare).slice(skip, skip + top)
Paginate(collection, kind, skip, top) ==
    ArraySlice(ArraySort(collection, kind), skip, skip + top)

TrimRepo(repo) == [id |-> repo.id, name |-> repo.name]
TrimRepos(list) == [i \in 1..Len(list) |-> TrimRepo(list[i])]

TrimPullRequest(pr) == [pullRequestId |-> pr.pullRequestId]
TrimPullRequests(list) == [i \in 1..Len(list) |-> TrimPullRequest(list[i])]

TrimThread(thread) ==
    [id |-> thread.id, status |-> thread.status,
     comments |-> trimComments(thread.comments)]

TrimThreads(list) == [i \in 1..Len(list) |-> TrimThread(list[i])]

\* Array.prototype.find over the positions that pass the test.
FirstAt(s, hits) ==
    IF hits = {} THEN None
    ELSE Some(s[CHOOSE i \in hits : \A j \in hits : i <= j])

\* (repo) => repo.name === repositoryNameOrId || repo.id === repositoryNameOrId
RepoWanted(repo, repositoryNameOrId) ==
    repo.name = Some(repositoryNameOrId) \/ repo.id = repositoryNameOrId

\* (branch) => branch.name === `refs/heads/${branchName}` || branch.name === branchName
BranchWanted(branch, branchName) ==
    branch.name = Some(refsHeads \o branchName) \/ branch.name = Some(branchName)

\* The backend call the handler awaits at its fetch step.
BackendCall(t, a) ==
    CASE t \in {"list_repos_by_project", "get_repo_by_name_or_id"} -> "getRepositories"
      [] t = "list_pull_requests_by_repo" -> "getPullRequests"
      [] t = "list_pull_requests_by_project" -> "getPullRequestsByProject"
      [] t = "list_pull_request_threads" -> "getThreads"
      [] t = "list_pull_request_thread_comments" -> "getComments"
      [] t \in BranchListTools \cup {"get_branch_by_name"} -> "getRefs"
      [] t = "get_pull_request_by_id" -> "getPullRequest"
      [] t = "search_commits" -> "getCommits"
      [] t = "list_pull_requests_by_commits" -> "getPullRequestQuery"
      [] OTHER -> IF TruthyNumber(a.threadId) THEN "createComment" ELSE "createThread"

\* Mutant of FinishPaged: a failed call is issued a second time.
FinishPagedRetrying(call, resp, data, array, page) ==
    /\ pc' = "done"
    /\ calls' = IF call.result = "error" THEN calls \o <<call, call>>
                ELSE Append(calls, call)
    /\ response' = resp
    /\ fetched' = data
    /\ source' = array
    /\ paginated' = page
    /\ UNCHANGED <<tool, args, criteria>>
    /\ UNCHANGED outside

\* The handler ends: data is what the backend returned, array is that same
\* array object as the handler leaves it, page is the paginated collection.
FinishPaged(call, resp, data, array, page) ==
    /\ pc' = "done"
    /\ calls' = Append(calls, call)
    /\ response' = resp
    /\ fetched' = data
    /\ source' = array
    /\ paginated' = page
    /\ UNCHANGED <<tool, args, criteria>>
    /\ UNCHANGED outside

Finish(call, resp, data, array) == FinishPaged(call, resp, data, array, <<>>)

\* What the handler passes to that call (kept for the calls that claims read).
BackendArg(t, a) ==
    CASE t \in PullRequestListTools -> criteria
      [] t = "create_pull_request_comment" ->
            IF TruthyNumber(a.threadId)
            THEN <<[content |-> a.content], the(a.threadId)>>
            ELSE ThreadData(a)
      [] OTHER -> NULL

\* The awaited backend call rejects.
FetchFails ==
    /\ pc = "fetch"
    /\ \E message \in ErrorMessages :
          Finish(Call(BackendCall(tool, args), BackendArg(tool, args), "error"),
                 OnError(tool, message), <<>>, <<>>)

list_repos_by_project ==
    /\ pc = "fetch" /\ tool = "list_repos_by_project"
    /\ \E repositories \in SeqsUpTo(GitRepository, MaxRepos) :
          LET filtering == args.repoNameFilter # None /\ the(args.repoNameFilter) # <<>>
              filteredRepositories ==
                  IF filtering
                  THEN filterReposByName(repositories, the(args.repoNameFilter))
                  ELSE repositories
              paginatedRepositories ==
                  Paginate(filteredRepositories, "repo", args.skip, args.top)
          IN FinishPaged(Call("getRepositories", NULL, "ok"),
                         Returned(TrimRepos(paginatedRepositories)),
                         repositories,
                         IF filtering THEN repositories
                         ELSE ArraySort(repositories, "repo"),
                         paginatedRepositories)

list_pull_requests ==
    /\ pc = "fetch" /\ tool \in PullRequestListTools
    /\ \E pullRequests \in PullRequestLists :
          Finish(Call(BackendCall(tool, args), criteria, "ok"),
                 Returned(TrimPullRequests(pullRequests)),
                 pullRequests, pullRequests)

list_pull_request_threads ==
    /\ pc = "fetch" /\ tool = "list_pull_request_threads"
    /\ \E threads \in SeqsUpTo(CommentThread, MaxThreads) :
          LET paginatedThreads == Paginate(threads, "id", args.skip, args.top)
          IN FinishPaged(Call("getThreads", NULL, "ok"),
                         IF args.fullResponse THEN Returned(paginatedThreads)
                         ELSE Returned(TrimThreads(paginatedThreads)),
                         threads, ArraySort(threads, "id"), paginatedThreads)

list_pull_request_thread_comments ==
    /\ pc = "fetch" /\ tool = "list_pull_request_thread_comments"
    /\ \E comments \in SeqsUpTo(Comment, MaxComments) :
          LET paginatedComments == Paginate(comments, "id", args.skip, args.top)
          IN FinishPaged(Call("getComments", NULL, "ok"),
                         IF args.fullResponse THEN Returned(paginatedComments)
                         ELSE Returned(trimComments(paginatedComments)),
                         comments, ArraySort(comments, "id"), paginatedComments)

\* list_branches_by_repo and list_my_branches_by_repo differ in the myRefs
\* flag they pass to getRefs.
list_branches ==
    /\ pc = "fetch" /\ tool \in BranchListTools
    /\ \E branches \in SeqsUpTo(GitRef, MaxRefs) :
          Finish(Call("getRefs", tool = "list_my_branches_by_repo", "ok"),
                 Returned(branchesFilterOutIrrelevantProperties(branches, args.top)),
                 branches, branches)

get_repo_by_name_or_id ==
    /\ pc = "fetch" /\ tool = "get_repo_by_name_or_id"
    /\ \E repositories \in SeqsUpTo(GitRepository, MaxRepos) :
          LET repository ==
                  FirstAt(repositories,
                          {i \in 1..Len(repositories) :
                              RepoWanted(repositories[i], args.repositoryNameOrId)})
          IN Finish(Call("getRepositories", NULL, "ok"),
                    IF repository = None
                    THEN Thrown("Repository not found in project")
                    ELSE Returned(the(repository)),
                    repositories, repositories)

get_branch_by_name ==
    /\ pc = "fetch" /\ tool = "get_branch_by_name"
    /\ \E branches \in SeqsUpTo(GitRef, 1) :
          LET branch ==
                  FirstAt(branches,
                          {i \in 1..Len(branches) :
                              BranchWanted(branches[i], args.branchName)})
          IN Finish(Call("getRefs", FALSE, "ok"),
                    IF branch = None
                    THEN ErrorResponse(<<"Branch ", args.branchName,
                                         " not found in repository">>)
                    ELSE Returned(the(branch)),
                    branches, branches)

get_pull_request_by_id ==
    /\ pc = "fetch" /\ tool = "get_pull_request_by_id"
    /\ \E pullRequest \in PullRequest :
          Finish(Call("getPullRequest", args.pullRequestId, "ok"),
                 Returned(pullRequest), <<pullRequest>>, <<pullRequest>>)

search_commits ==
    /\ pc = "fetch" /\ tool = "search_commits"
    /\ \E commits \in {<<>>, <<"c1">>} :
          LET searchCriteria ==
                  [itemVersion |-> IF TruthyText(args.version)
                                   THEN <<args.version, args.versionType>>
                                   ELSE <<>>]
          IN Finish(Call("getCommits", searchCriteria, "ok"),
                    Returned(commits), commits, commits)

list_pull_requests_by_commits ==
    /\ pc = "fetch" /\ tool = "list_pull_requests_by_commits"
    /\ \E queryResult \in PullRequestLists :
          Finish(Call("getPullRequestQuery", args.queryType, "ok"),
                 Returned(queryResult), queryResult, queryResult)

create_pull_request_comment ==
    /\ pc = "fetch" /\ tool = "create_pull_request_comment"
    /\ IF TruthyNumber(args.threadId)
       THEN LET comment == [content |-> args.content]
                result == [id |-> Some(1), content |-> args.content]
            IN Finish(Call("createComment", <<comment, the(args.threadId)>>, "ok"),
                      Returned([id |-> result.id, content |-> result.content,
                                threadId |-> the(args.threadId)]),
                      <<result>>, <<result>>)
       ELSE LET threadData == ThreadData(args)
                result == [id |-> Some(1), status |-> threadData.status,
                           threadContext |-> threadData.threadContext,
                           comments |-> <<[id |-> Some(1), isDeleted |-> FALSE,
                                           content |-> args.content]>>]
            IN Finish(Call("createThread", threadData, "ok"),
                      Returned([id |-> result.id, status |-> result.status,
                                threadContext |-> result.threadContext,
                                comments |-> trimComments(result.comments)]),
                      <<result>>, <<result>>)

\* The response is delivered; the server is ready for the next request.
Reset ==
    /\ pc = "done"
    /\ pc' = "idle"
    /\ tool' = NULL
    /\ args' = <<>>
    /\ calls' = <<>>
    /\ criteria' = NoCriteria
    /\ fetched' = <<>>
    /\ source' = <<>>
    /\ paginated' = <<>>
    /\ response' = NoResponse
    /\ UNCHANGED outside

Next ==
    \/ pc = "idle" /\ \E t \in REPO_TOOLS : \E a \in ToolArgs(t) : Invoke(t, a)
    \/ Connect
    \/ ConnectFails
    \/ LookupUser
    \/ LookupMe
    \/ FetchFails
    \/ list_repos_by_project
    \/ list_pull_requests
    \/ list_pull_request_threads
    \/ list_pull_request_thread_comments
    \/ list_branches
    \/ get_repo_by_name_or_id
    \/ get_branch_by_name
    \/ get_pull_request_by_id
    \/ search_commits
    \/ list_pull_requests_by_commits
    \/ create_pull_request_comment
    \/ Reset

Spec == Init /\ [][Next]_vars

(***************************************************************************)
(* Concurrent invocations.  A handler runs until it awaits; the event loop  *)
(* then resumes any other handler whose awaited call has settled.  Each    *)
(* invocation has its own parameters and local variables (the closure of   *)
(* one call of the handler).  The pull request listing is the handler that *)
(* carries an object it goes on writing, searchCriteria, across its awaits.*)
(***************************************************************************)
\* The parameters and local variables of the running invocation.
Local ==
    [pc |-> pc, tool |-> tool, args |-> args, calls |-> calls,
     criteria |-> criteria, fetched |-> fetched, source |-> source,
     paginated |-> paginated, response |-> response]

IdleLocal ==
    [pc |-> "idle", tool |-> NULL, args |-> <<>>, calls |-> <<>>,
     criteria |-> NoCriteria, fetched |-> <<>>, source |-> <<>>,
     paginated |-> <<>>, response |-> NoResponse]

ConcurrentTools == {"list_pull_requests_by_repo"}

ConcurrentArgs(t) ==
    {a \in ToolArgs(t) : a.status = "Active" /\ a.created_by_user # ""}

InitConcurrent ==
    /\ NoInvocation
    /\ suspended = [i \in 1..MaxSuspended |-> IdleLocal]
    /\ domainsInput = Undefined
    /\ enabledDomains = DomainsManager(Undefined)
    /\ answer = NoAnswer

\* Mutant of Yield: searchCriteria kept in one place for all invocations.
YieldSharingCriteria(i) ==
    /\ suspended' = [suspended EXCEPT ![i] = Local]
    /\ pc' = suspended[i].pc
    /\ tool' = suspended[i].tool
    /\ args' = suspended[i].args
    /\ calls' = suspended[i].calls
    /\ criteria' = criteria
    /\ fetched' = suspended[i].fetched
    /\ source' = suspended[i].source
    /\ paginated' = suspended[i].paginated
    /\ response' = suspended[i].response
    /\ UNCHANGED <<domainsInput, enabledDomains, answer>>

\* The running handler is suspended at its await (or has not started, or has
\* ended) and invocation i runs on from where it was suspended.
Yield(i) ==
    /\ suspended' = [suspended EXCEPT ![i] = Local]
    /\ pc' = suspended[i].pc
    /\ tool' = suspended[i].tool
    /\ args' = suspended[i].args
    /\ calls' = suspended[i].calls
    /\ criteria' = suspended[i].criteria
    /\ fetched' = suspended[i].fetched
    /\ source' = suspended[i].source
    /\ paginated' = suspended[i].paginated
    /\ response' = suspended[i].response
    /\ UNCHANGED <<domainsInput, enabledDomains, answer>>

NextConcurrent ==
    \/ pc = "idle" /\ \E t \in ConcurrentTools : \E a \in ConcurrentArgs(t) : Invoke(t, a)
    \/ Connect
    \/ ConnectFails
    \/ LookupUser
    \/ LookupMe
    \/ FetchFails
    \/ list_pull_requests
    \/ Reset
    \/ \E i \in DOMAIN suspended : Yield(i)

SpecConcurrent == InitConcurrent /\ [][NextConcurrent]_vars

(***************************************************************************)
(* The DomainsManager on its own: constructed with any input, then asked.  *)
(***************************************************************************)
InitDomains ==
    /\ NoInvocation
    /\ suspended = <<>>
    /\ domainsInput \in DomainsInputs
    /\ enabledDomains = DomainsManager(domainsInput)
    /\ answer = NoAnswer

\* isDomainEnabled(domain): return this.enabledDomains.has(domain)
isDomainEnabled(domain) ==
    /\ answer' = Answer("isDomainEnabled", domain, domain \in enabledDomains)
    /\ UNCHANGED <<locals, suspended, domainsInput, enabledDomains>>

\* getEnabledDomains(): return new Set(this.enabledDomains)
getEnabledDomains ==
    /\ answer' = Answer("getEnabledDomains", <<>>, {d \in enabledDomains : TRUE})
    /\ UNCHANGED <<locals, suspended, domainsInput, enabledDomains>>

\* static getAvailableDomains(): return Object.values(Domain)
getAvailableDomains ==
    /\ answer' = Answer("getAvailableDomains", <<>>, <<Domain.REPOSITORIES>>)
    /\ UNCHANGED <<locals, suspended, domainsInput, enabledDomains>>

\* A call of the static parseDomainsInput.
ParseDomainsInput(input) ==
    /\ answer' = Answer("parseDomainsInput", input, parseDomainsInput(input))
    /\ UNCHANGED <<locals, suspended, domainsInput, enabledDomains>>

NextDomains ==
    \/ \E domain \in DomainNames : isDomainEnabled(domain)
    \/ getEnabledDomains
    \/ getAvailableDomains
    \/ \E input \in DomainsInputs : ParseDomainsInput(input)

SpecDomains == InitDomains /\ [][NextDomains]_vars

(***************************************************************************)
(* Properties.                                                             *)
(***************************************************************************)
Succeeded == pc = "done" /\ response.outcome = "returned" /\ ~response.isError

SomeCallFailed == \E i \in DOMAIN calls : calls[i].result = "error"

SurfacesDeleted(comments) ==
    \E i \in DOMAIN comments : comments[i].content = "deleted text"

\* C1: in the responses of list_pull_request_threads and
\* list_pull_request_thread_comments no deleted comment appears, whether
\* fullResponse is false or true.
C1_DeletedNeverSurfaces ==
    Succeeded =>
      /\ tool = "list_pull_request_thread_comments" => ~SurfacesDeleted(response.text)
      /\ tool = "list_pull_request_threads" =>
            \A i \in DOMAIN response.text : ~SurfacesDeleted(response.text[i].comments)

IsPullRequestFetch(call) ==
    call.name \in {"getPullRequests", "getPullRequestsByProject"}

BothCreatorFilters ==
    /\ pc # "idle"
    /\ tool \in PullRequestListTools
    /\ TruthyText(args.created_by_user)
    /\ args.created_by_me

\* C2: with created_by_user supplied (a non-empty string) and created_by_me true, the calling
\* identity is never looked up, the creatorId of the criteria handed to the
\* backend is the id the lookup of created_by_user returned, and an error
\* response has another cause (a failed call, or a status the schema rejects).
C2_ExplicitUserWins ==
    BothCreatorFilters =>
      /\ \A i \in DOMAIN calls : calls[i].name # "getCurrentUserDetails"
      /\ \A i \in DOMAIN calls :
            IsPullRequestFetch(calls[i]) =>
              \E j \in 1..(i - 1) :
                 /\ calls[j].name = "getUserIdFromEmail"
                 /\ calls[j].arg = args.created_by_user
                 /\ calls[j].result # "error"
                 /\ calls[i].arg.creatorId = calls[j].result
      /\ (pc = "done" /\ ~Succeeded) =>
            SomeCallFailed \/ response.outcome = "rejected"

C2_Witness ==
    /\ BothCreatorFilters
    /\ Succeeded
    /\ \E i \in DOMAIN calls :
          IsPullRequestFetch(calls[i]) /\ calls[i].arg.creatorId \in UserIds

\* C3: a list_pull_requests_by_repo invocation whose status is none of
\* Abandoned, Active, All, Completed, NotSet ends at once with an
\* invalid-enum-value error: no call of any kind is issued, no criteria are
\* built and the value is not replaced by the default.
C3_InvalidStatusRejectedBeforeAnyCall ==
    (/\ pc # "idle"
     /\ tool = "list_pull_requests_by_repo"
     /\ args.status \notin {"Abandoned", "Active", "All", "Completed", "NotSet"})
    => /\ pc = "done"
       /\ calls = <<>>
       /\ criteria = NoCriteria
       /\ response.outcome = "rejected"
       /\ response.isError
       /\ response.text = <<"invalid_enum_value", "status", args.status>>

C3_Witness ==
    /\ pc = "done"
    /\ tool = "list_pull_requests_by_repo"
    /\ args.status = "Merged"
    /\ response.outcome = "rejected"

\* C4: whenever a call of the invocation failed, or the handler ended on an
\* error of its own (an entity not found), the invocation ends with a returned
\* response whose isError flag is set and which carries the message; no handler
\* ends by throwing.
C4_ErrorsBecomeErrorResponses ==
    pc = "done" =>
      /\ response.outcome # "thrown"
      /\ SomeCallFailed =>
            /\ response.outcome = "returned"
            /\ response.isError
            /\ \E i \in DOMAIN response.text : response.text[i] \in ErrorMessages

MutatingCalls == {"createComment", "createThread"}

\* C5: no invocation of a registered tool issues a mutating call to the backend.
C5_ReadOnly == \A i \in DOMAIN calls : calls[i].name \notin MutatingCalls

BranchListed == Succeeded /\ tool \in BranchListTools

Descending(names) ==
    \A i, j \in DOMAIN names : i < j => localeCompare(names[i], names[j]) >= 0

FetchedRefNames ==
    {the(fetched[i].name) : i \in {j \in DOMAIN fetched : fetched[j].name # None}}

\* C6 as stated: every name a branch listing returns does not start with
\* refs/heads/, and the names are in descending order.
C6_NoPrefixAndDescending ==
    BranchListed =>
      /\ \A i \in DOMAIN response.text : ~startsWith(response.text[i], refsHeads)
      /\ Descending(response.text)

\* C6 as amended: every name a branch listing returns is a backend ref name
\* that begins with refs/heads/, with that one leading prefix removed (it still
\* starts with refs/heads/ when the branch's own short name does), and the
\* names are in descending order.
C6_PrefixRemovedOnceAndDescending ==
    BranchListed =>
      /\ \A i \in DOMAIN response.text :
            (refsHeads \o response.text[i]) \in FetchedRefNames
      /\ Descending(response.text)

C6_Witness ==
    /\ BranchListed
    /\ Len(response.text) >= 2
    /\ \E i \in DOMAIN response.text : startsWith(response.text[i], refsHeads)
    /\ \E i \in DOMAIN fetched : fetched[i].name = Some(refsTags \o <<"v">>)

IsHeadRef(ref) == ref.name # None /\ startsWith(the(ref.name), refsHeads)
ShortName(ref) == SubSeq(the(ref.name), Len(refsHeads) + 1, Len(the(ref.name)))
ShortNames(refs) == [i \in 1..Len(refs) |-> ShortName(refs[i])]

FirstN(s, n) == SubSeq(s, 1, Min(Max(n, 0), Len(s)))

\* C7: a branch listing returns exactly the first top elements of the
\* descending-sorted short names of the backend refs that begin with
\* refs/heads/.
C7_FirstTopOfDescendingHeads ==
    BranchListed =>
      response.text =
        FirstN(ArraySort(ShortNames(SelectSeq(fetched, IsHeadRef)), "branch"),
               args.top)

PagedTools == {"list_repos_by_project", "list_pull_request_threads",
               "list_pull_request_thread_comments"}

SortKind == IF tool = "list_repos_by_project" THEN "repo" ELSE "id"

\* The collection the pager of the current tool sorts.
PagedCollection ==
    IF tool = "list_repos_by_project" /\ args.repoNameFilter # None
         /\ the(args.repoNameFilter) # <<>>
    THEN filterReposByName(fetched, the(args.repoNameFilter))
    ELSE fetched

\* The elements at the 0-based positions skip .. skip + top - 1; none when skip
\* is out of range or top is 0.
IntervalSlice(s, skip, top) ==
    IF skip < 0 \/ skip >= Len(s) \/ top <= 0 THEN <<>>
    ELSE SubSeq(s, skip + 1, Min(skip + top, Len(s)))

\* C8: the paginated collection of a locally paged tool is the slice
\* [skip, skip + top) of the sorted collection, empty when skip is out of range
\* or top is 0; a branch listing with top 0 is empty.
C8_SliceOfSorted ==
    /\ (Succeeded /\ tool \in PagedTools) =>
          paginated = IntervalSlice(ArraySort(PagedCollection, SortKind),
                                    args.skip, args.top)
    /\ (BranchListed /\ args.top = 0) => response.text = <<>>

\* C9 as stated, on skip and top that are not negative (its refutation owes
\* nothing to a negative index): paging the paginated collection again with the
\* same skip and top gives the paginated collection.
C9_PagingIdempotent ==
    (Succeeded /\ tool \in PagedTools /\ args.skip >= 0 /\ args.top >= 0) =>
      Paginate(paginated, SortKind, args.skip, args.top) = paginated

\* C9 as amended: with skip 0 and top not negative, paging the paginated
\* collection again with the same skip and top gives the paginated collection.
C9_PagingIdempotentFromStart ==
    (Succeeded /\ tool \in PagedTools /\ args.skip = 0 /\ args.top >= 0) =>
      Paginate(paginated, SortKind, args.skip, args.top) = paginated

C9_Witness ==
    /\ Succeeded /\ tool \in PagedTools
    /\ args.skip = 0 /\ args.top >= 1
    /\ Len(paginated) >= 1
    /\ Len(PagedCollection) > Len(paginated)
    /\ ArraySort(PagedCollection, SortKind) # PagedCollection

\* The member of CommentThreadStatus each accepted status stands for.
ExpectedThreadStatus(status) ==
    CASE status = active -> <<"A", "c", "t", "i", "v", "e">>
      [] status = byDesign -> <<"B", "y", "D", "e", "s", "i", "g", "n">>
      [] status = closed -> <<"C", "l", "o", "s", "e", "d">>
      [] status = fixed -> <<"F", "i", "x", "e", "d">>
      [] status = pending -> <<"P", "e", "n", "d", "i", "n", "g">>
      [] status = unknown -> <<"U", "n", "k", "n", "o", "w", "n">>
      [] status = wontFix -> <<"W", "o", "n", "t", "F", "i", "x">>

\* C10: the thread handed to createThread carries, for each of the seven
\* accepted status strings, the defined CommentThreadStatus member of that
\* name (ByDesign for byDesign, WontFix for wontFix, the capitalised token for
\* the others).
C10_ThreadStatusMapped ==
    \A i \in DOMAIN calls :
       calls[i].name = "createThread" =>
         /\ args.status \in ThreadStatusInputs
         /\ ExpectedThreadStatus(args.status) \in DOMAIN CommentThreadStatus
         /\ calls[i].arg.status =
               Some(CommentThreadStatus[ExpectedThreadStatus(args.status)])

C10_Witness ==
    /\ Succeeded
    /\ tool = "create_pull_request_comment"
    /\ args.status = byDesign
    /\ \E i \in DOMAIN calls :
          calls[i].name = "createThread" /\ calls[i].arg.status = Some(5)

CreatesThread(call) == call.name = "createThread"

\* C11: a thread passed to createThread carries a context exactly when a file
\* path and a start line were both supplied, whatever the start line; its end
\* line is then the supplied end line, or the start line when none was
\* supplied; a file path without a start line gives a thread without context
\* and no error of the handler's own.
C11_ContextIffPathAndStartLine ==
    tool = "create_pull_request_comment" =>
      \A i \in DOMAIN calls :
         CreatesThread(calls[i]) =>
           LET context == calls[i].arg.threadContext
               both == args.filePath # NULL /\ args.lineStart # None
           IN /\ (context # None) <=> both
              /\ context # None =>
                    the(context).rightFileEnd.line =
                       IF args.lineEnd # None THEN the(args.lineEnd)
                       ELSE the(args.lineStart)
              /\ (args.filePath # NULL /\ args.lineStart = None) =>
                    /\ context = None
                    /\ calls[i].result = "ok" => Succeeded

\* The lines of one side of a thread context, <<>> when the side is not set.
SideLines(context, start, end) ==
    IF {start, end} \subseteq DOMAIN context
    THEN <<context[start].line, context[end].line>>
    ELSE <<>>

\* A new thread is asked for on a file, with a start line and no end line, and
\* the handler has its connection.
NewThreadOnLine ==
    /\ tool = "create_pull_request_comment"
    /\ pc = "done"
    /\ \E i \in DOMAIN calls : calls[i].name = "getGitApi"
    /\ args.threadId = None
    /\ TruthyText(args.filePath)
    /\ TruthyNumber(args.lineStart)
    /\ args.lineEnd = None

\* C12 as stated: such a thread spans line L to line L on both diff sides.
C12_LineToLineOnBothSides ==
    NewThreadOnLine =>
      \A i \in DOMAIN calls :
         CreatesThread(calls[i]) =>
           LET context == the(calls[i].arg.threadContext)
               L == the(args.lineStart)
           IN /\ SideLines(context, "rightFileStart", "rightFileEnd") = <<L, L>>
              /\ SideLines(context, "leftFileStart", "leftFileEnd") = <<L, L>>

\* C12, amended: such a thread spans line L to line L (offset 1) on the right
\* side of the diff of that file, and carries no position on the left side.
C12_LineToLineOnRightSide ==
    NewThreadOnLine =>
      /\ \E i \in DOMAIN calls : CreatesThread(calls[i])
      /\ \A i \in DOMAIN calls :
            CreatesThread(calls[i]) =>
              /\ calls[i].arg.threadContext # None
              /\ LET context == the(calls[i].arg.threadContext)
                      L == the(args.lineStart)
                 IN /\ context.filePath = args.filePath
                    /\ context.rightFileStart = [line |-> L, offset |-> 1]
                    /\ context.rightFileEnd = [line |-> L, offset |-> 1]
                    /\ SideLines(context, "leftFileStart", "leftFileEnd") = <<>>
                    /\ DOMAIN context = {"filePath", "rightFileStart", "rightFileEnd"}

C12_Witness ==
    /\ NewThreadOnLine
    /\ Succeeded
    /\ args.filePath = "a.ts" /\ args.lineStart = Some(10)
    /\ \E i \in DOMAIN calls :
          /\ CreatesThread(calls[i])
          /\ the(calls[i].arg.threadContext).rightFileEnd.line = 10

\* The id the calling identity's lookup returned before call i, if any.
CallerIdBefore(i) ==
    {calls[j].result : j \in {k \in 1..(i - 1) :
                                 /\ calls[k].name = "getCurrentUserDetails"
                                 /\ calls[k].result # "error"}}

\* C13: in both pull request listings each of created_by_me and i_am_reviewer
\* sets its own field and no other: the criteria of the fetch carry reviewerId,
\* equal to the calling identity's id looked up in this invocation, exactly when
\* i_am_reviewer is true, and (created_by_user aside, which replaces
\* created_by_me) creatorId, equal to that same id, exactly when created_by_me
\* is true; with both flags true both fields are set to it.
C13_FlagsIndependent ==
    tool \in PullRequestListTools =>
      \A i \in DOMAIN calls :
         IsPullRequestFetch(calls[i]) =>
           LET searchCriteria == calls[i].arg
           IN /\ IF args.i_am_reviewer
                 THEN {searchCriteria.reviewerId} = CallerIdBefore(i)
                 ELSE searchCriteria.reviewerId = NULL
              /\ ~TruthyText(args.created_by_user) =>
                    IF args.created_by_me
                    THEN {searchCriteria.creatorId} = CallerIdBefore(i)
                    ELSE searchCriteria.creatorId = NULL

\* C14: no call is issued twice in one invocation; a failed call is the last
\* call of its invocation, which has ended on that failure; and
\* create_pull_request_comment issues at most one of createComment and
\* createThread, once.
C14_NoRetry ==
    /\ \A i, j \in DOMAIN calls : calls[i].name = calls[j].name => i = j
    /\ \A i \in DOMAIN calls :
          calls[i].result = "error" =>
            /\ i = Len(calls)
            /\ pc = "done"
            /\ response.outcome = "thrown" \/ response.isError
    /\ Cardinality({i \in DOMAIN calls : calls[i].name \in MutatingCalls}) <= 1

C14_Witness ==
    /\ tool = "create_pull_request_comment"
    /\ pc = "done"
    /\ response.isError
    /\ Cardinality({i \in DOMAIN calls : calls[i].name = "createThread"}) = 1
    /\ calls[Len(calls)].result = "error"

IsLookup(call) == call.name \in {"getUserIdFromEmail", "getCurrentUserDetails"}

\* An identity filter the handler acts on is requested.
IdentityFilterRequested ==
    TruthyText(args.created_by_user) \/ args.created_by_me \/ args.i_am_reviewer

\* C15: in the pull request listings with an identity filter requested, no
\* fetch has been issued while the lookup is pending; a fetch comes after a
\* lookup of this invocation that returned an id, and every creatorId or
\* reviewerId it carries is the id that lookup returned.
C15_LookupBeforeFetch ==
    (tool \in PullRequestListTools /\ pc \notin {"idle", "connect"}
       /\ response.outcome # "rejected" /\ IdentityFilterRequested) =>
      /\ pc \in {"lookupUser", "lookupMe"} =>
            \A i \in DOMAIN calls : ~IsPullRequestFetch(calls[i]) /\ ~IsLookup(calls[i])
      /\ \A i \in DOMAIN calls :
            IsPullRequestFetch(calls[i]) =>
              \E j \in 1..(i - 1) :
                 /\ IsLookup(calls[j])
                 /\ calls[j].result \in UserIds
                 /\ calls[i].arg.creatorId \in {NULL, calls[j].result}
                 /\ calls[i].arg.reviewerId \in {NULL, calls[j].result}
                 /\ calls[i].arg.creatorId # NULL \/ calls[i].arg.reviewerId # NULL

C15_Witness ==
    /\ tool \in PullRequestListTools
    /\ Succeeded
    /\ args.i_am_reviewer /\ args.created_by_me /\ args.created_by_user = NULL
    /\ \E i \in DOMAIN calls :
          /\ IsPullRequestFetch(calls[i])
          /\ calls[i].arg.reviewerId = "id-b"
          /\ calls[i - 1].name = "getCurrentUserDetails"
          /\ calls[i - 1].result = "id-b"

\* list_repos_by_project has fetched its repositories.
ReposListed ==
    /\ tool = "list_repos_by_project"
    /\ pc = "done"
    /\ Succeeded

\* C17: the sequence list_repos_by_project slices is the (name-filtered)
\* collection sorted so that every repository without a name precedes every
\* named one and the named ones are in non-decreasing name order.
C17_NamelessFirstThenAscending ==
    ReposListed =>
      LET sorted == ArraySort(PagedCollection, "repo")
      IN /\ paginated = ArraySlice(sorted, args.skip, args.skip + args.top)
         /\ \A i, j \in DOMAIN sorted :
               i < j =>
                 /\ sorted[j].name = None => sorted[i].name = None
                 /\ (sorted[i].name # None /\ sorted[j].name # None) =>
                       localeCompare(the(sorted[i].name), the(sorted[j].name)) <= 0

\* C18: once the handler has ended, the array the backend fetch returned holds
\* the same elements in the same order as when the fetch returned.
C18_SourceUnchanged == pc = "done" => source = fetched

\* The lookup of created_by_user has failed in this invocation.
UserLookupFailed ==
    /\ tool \in PullRequestListTools
    /\ \E i \in DOMAIN calls :
          calls[i].name = "getUserIdFromEmail" /\ calls[i].result = "error"

\* C19: when the lookup of created_by_user fails, the invocation has ended with
\* a returned response whose isError flag is set and whose text carries the
\* submitted identifier; nothing is thrown and no pull request fetch is issued.
C19_UserNotFoundIsErrorResponse ==
    UserLookupFailed =>
      /\ pc = "done"
      /\ response.outcome = "returned"
      /\ response.isError
      /\ \E k \in DOMAIN response.text : response.text[k] = args.created_by_user
      /\ \A i \in DOMAIN calls : ~IsPullRequestFetch(calls[i])

C19_Witness ==
    /\ UserLookupFailed
    /\ args.created_by_user = "a@x.com"
    /\ response.isError
    /\ Len(calls) = 3

\* C20: whatever the DomainsManager was constructed with, its enabled set is
\* {"repositories"}: getEnabledDomains returns a set of size 1 holding
\* "repositories", and isDomainEnabled(d) is true exactly for d = "repositories".
C20_OnlyRepositoriesEnabled ==
    /\ enabledDomains = {REPOSITORIES}
    /\ answer.method = "getEnabledDomains" =>
          Cardinality(answer.value) = 1 /\ REPOSITORIES \in answer.value
    /\ answer.method = "isDomainEnabled" =>
          (answer.value <=> answer.arg = REPOSITORIES)

C20_Witness ==
    /\ domainsInput = Array(<<REPOSITORIES, builds>>)
    /\ answer.method = "isDomainEnabled"
    /\ answer.arg = builds
    /\ answer.value = FALSE

\* What a call of invocation s named name returned, NULL when it made none
\* that returned.
OwnResult(s, name) ==
    IF \E i \in DOMAIN s.calls : s.calls[i].name = name /\ s.calls[i].result # "error"
    THEN s.calls[CHOOSE i \in DOMAIN s.calls :
                    s.calls[i].name = name /\ s.calls[i].result # "error"].result
    ELSE NULL

\* The criteria invocation s builds when it runs alone: from its own arguments
\* and what its own lookup returned.
AloneCriteria(s) ==
    [status |-> pullRequestStatusStringToInt(s.args.status),
     creatorId |-> IF TruthyText(s.args.created_by_user)
                   THEN OwnResult(s, "getUserIdFromEmail")
                   ELSE IF s.args.created_by_me
                        THEN OwnResult(s, "getCurrentUserDetails")
                        ELSE NULL,
     reviewerId |-> IF ~TruthyText(s.args.created_by_user) /\ s.args.i_am_reviewer
                    THEN OwnResult(s, "getCurrentUserDetails")
                    ELSE NULL]

\* Invocation s is where it would be had it run alone with the same arguments,
\* the same lookup results and the same fetched data.
RunsAlone(s) ==
    /\ s.pc = "idle" => s = IdleLocal
    /\ s.pc = "connect" => s.calls = <<>> /\ s.criteria = NoCriteria
    /\ s.pc \in {"lookupUser", "lookupMe"} =>
          s.criteria = [NoCriteria EXCEPT
                          !.status = pullRequestStatusStringToInt(s.args.status)]
    /\ s.pc = "fetch" => s.criteria = AloneCriteria(s)
    /\ \A i \in DOMAIN s.calls :
          /\ IsPullRequestFetch(s.calls[i]) => s.calls[i].arg = AloneCriteria(s)
          /\ s.calls[i].name = "getUserIdFromEmail" =>
                s.calls[i].arg = s.args.created_by_user
    /\ (s.pc = "done" /\ s.response.outcome = "returned" /\ ~s.response.isError) =>
          /\ s.response = Returned(TrimPullRequests(s.fetched))
          /\ s.calls[Len(s.calls)].result = "ok"

\* C16: with invocations interleaved at their awaits in any order, every
\* invocation, running or suspended, is where it would be had it run alone on
\* its own arguments, lookup results and fetched data: nothing one invocation
\* wrote has reached another.
C16_InvocationsIsolated ==
    /\ RunsAlone(Local)
    /\ \A i \in DOMAIN suspended : RunsAlone(suspended[i])

C16_Witness ==
    /\ Succeeded
    /\ args.created_by_user = "a@x.com"
    /\ OwnResult(Local, "getUserIdFromEmail") = "id-a"
    /\ \E i \in DOMAIN suspended :
          /\ suspended[i].pc = "done"
          /\ suspended[i].response.outcome = "returned"
          /\ ~suspended[i].response.isError
          /\ suspended[i].args.created_by_user = NULL
          /\ suspended[i].args.i_am_reviewer
          /\ OwnResult(suspended[i], "getCurrentUserDetails") = "id-b"
          /\ suspended[i].fetched # fetched
          /\ Len(suspended[i].calls) = 4 /\ Len(calls) = 4

AllWhitespace(s) == \A i \in DOMAIN s : s[i] \in Whitespace

\* r is d with the white space at its two ends removed and its letters in
\* lower case.
IsTrimmedLowerOf(r, d) ==
    /\ r # <<>> => r[1] \notin Whitespace /\ r[Len(r)] \notin Whitespace
    /\ \E i \in 1..(Len(d) + 1) :
          /\ i + Len(r) - 1 <= Len(d)
          /\ AllWhitespace(SubSeq(d, 1, i - 1))
          /\ AllWhitespace(SubSeq(d, i + Len(r), Len(d)))
          /\ \A k \in 1..Len(r) :
                /\ r[k] = charToLower(d[i + k - 1])
                /\ r[k] \notin {Upper[u] : u \in DOMAIN Upper}

Commas(s) == {k \in DOMAIN s : s[k] = ","}

\* The position of the i-th comma of s; 0 before the first piece, Len(s) + 1
\* after the last.
CommaAt(s, i) ==
    IF i = 0 THEN 0
    ELSE IF i > Cardinality(Commas(s)) THEN Len(s) + 1
    ELSE CHOOSE k \in Commas(s) : Cardinality({j \in Commas(s) : j <= k}) = i

\* The i-th comma-separated piece of s.
Piece(s, i) == SubSeq(s, CommaAt(s, i - 1) + 1, CommaAt(s, i) - 1)

ParsedInput == answer.method = "parseDomainsInput"

\* What C21 says of arrays and of the enabled set.
ParseOfArrayAndFrame ==
    /\ enabledDomains = DomainsManager(domainsInput)
    /\ answer.arg.kind = "undefined" => answer.value = <<>>
    /\ answer.arg.kind = "array" =>
          /\ Len(answer.value) = Len(answer.arg.value)
          /\ \A i \in DOMAIN answer.value :
                IsTrimmedLowerOf(answer.value[i], answer.arg.value[i])

\* One trimmed, lower-cased entry per comma-separated piece of s, in order.
EntryPerPiece(entries, s) ==
    /\ Len(entries) = Cardinality(Commas(s)) + 1
    /\ \A i \in DOMAIN entries : IsTrimmedLowerOf(entries[i], Piece(s, i))

\* C21 as stated: parseDomainsInput returns the empty list for absent input, for
\* an array the list of its elements trimmed and lower-cased, in order, and for
\* a string one trimmed, lower-cased entry per comma-separated piece, in order;
\* the enabled set is as the constructor left it.
C21_ParseNormalisesEveryString ==
    ParsedInput =>
      /\ ParseOfArrayAndFrame
      /\ answer.arg.kind = "string" => EntryPerPiece(answer.value, answer.arg.value[1])

\* C21, amended: the same, with the empty string treated as absent input (the
\* empty list, not the one empty piece the string holds).
C21_ParseNormalisesNonEmptyString ==
    ParsedInput =>
      /\ ParseOfArrayAndFrame
      /\ answer.arg.kind = "string" =>
            IF answer.arg.value[1] = <<>> THEN answer.value = <<>>
            ELSE EntryPerPiece(answer.value, answer.arg.value[1])

C21_Witness ==
    /\ ParsedInput
    /\ answer.arg.kind = "string"
    /\ Cardinality(Commas(answer.arg.value[1])) = 2
    /\ answer.value = <<<<"r", "e", "p", "o", "s">>, <<>>, wiki>>

\* The calls of the running invocation named name.
CallsNamed(name) == {i \in DOMAIN calls : calls[i].name = name}

\* create_pull_request_comment has had its connection and has ended.
CommentRequested ==
    /\ tool = "create_pull_request_comment"
    /\ pc = "done"
    /\ \E i \in DOMAIN calls : calls[i].name = "getGitApi"

\* C22: create_pull_request_comment issues one createComment on the given
\* thread, carrying the content alone, and no createThread whenever a threadId
\* is provided, whatever its value; it issues one createThread and no
\* createComment exactly when no threadId is provided.
C22_ThreadIdChoosesThePath ==
    CommentRequested =>
      IF args.threadId # None
      THEN /\ CallsNamed("createThread") = {}
           /\ Cardinality(CallsNamed("createComment")) = 1
           /\ \A i \in CallsNamed("createComment") :
                 calls[i].arg = <<[content |-> args.content], the(args.threadId)>>
      ELSE /\ CallsNamed("createComment") = {}
           /\ Cardinality(CallsNamed("createThread")) = 1

CommentsTrimmed ==
    /\ tool = "list_pull_request_thread_comments"
    /\ Succeeded
    /\ ~args.fullResponse

\* C24: in the trimmed path of list_pull_request_thread_comments the window is
\* cut before deleted comments are removed: the result is the non-deleted
\* comments, trimmed, among those at the positions [skip, skip + top) of the
\* fetched collection sorted by id ascending (a missing id as 0), so deleted
\* comments count toward skip and top.
C24_WindowThenDropDeleted ==
    CommentsTrimmed =>
      response.text = trimComments(IntervalSlice(ArraySort(fetched, "id"),
                                                 args.skip, args.top))

=============================================================================
